---- MODULE Spec2Model ----
(***************************************************************************)
(* Model of src/agent/agent.py: the Completion Signal (mark_task_complete), *)
(* Phase Recovery and the Orchestration Loop of BookishOrchestrator.        *)
(*                                                                          *)
(* Strings are modelled as sequences of tokens, so that the substring test  *)
(* of Phase Recovery is a real search over the rendered event content.      *)
(***************************************************************************)
EXTENDS Integers, Sequences, FiniteSets, TLC

VARIABLES
    state,          \* ctx.session.state: current_phase and the "<task>_completed" flags
    events,         \* ctx.session.events: rendered content of each event, oldest first
    pc,             \* "idle": no interaction running; "worker": target_agent.run_async is running
    loop_count,     \* local of _run_async_impl
    phase_before,   \* local of _run_async_impl
    target_agent,   \* local of _run_async_impl
    invoked,        \* history: workers invoked in the current interaction, in order
    signalled,      \* history: task names the Completion Signal was invoked with in this session
    initialized,    \* history: current_phase was written by Phase Recovery or a Completion Signal
    stop_reason,    \* history: why the loop of the last interaction stopped
    turn_calls,     \* history: Completion Signal calls made in the last worker turn
    op,             \* history: the last operation, its argument, and the value of
                    \* current_phase it found (Absent if the key was missing)
    forwarded,      \* the events _run_async_impl has yielded to its caller in this interaction
    produced,       \* history: per worker turn of this interaction, the events the worker produced
    ia,             \* history: how the current interaction started: Session State as found,
                    \* Session State as Phase Recovery left it, length of the history scanned
    book            \* get_book_details: its locals, the attempts made, the sleeps, the result

vars == <<state, events, pc, loop_count, phase_before, target_agent,
          invoked, signalled, initialized, stop_reason, turn_calls, op,
          forwarded, produced, ia, book>>

----------------------------------------------------------------------------
(* Bounds of the model *)

\* Events kept in one session's Event History.
MaxEvents == 6

\* Completion Signal calls one worker makes in one turn.
MaxTurnCalls == 2

----------------------------------------------------------------------------
(* Values *)

Absent == "<absent>"
Unrecognized == "<unrecognized>"
Phases == {"discovery", "scheduling", "engagement", "complete"}
PhaseValues == Phases \cup {Unrecognized}
TaskNames == {"book_discovery", "schedule_creation", "engagement_generation"}
OtherTask == "other_task"
TaskArgs == TaskNames \cup {OtherTask}
NoAgent == "<none>"
NoTask == "<none>"

max_loops == 5

EmptyState == [current_phase |-> Absent, completed |-> {}]

----------------------------------------------------------------------------
(* Completion Signal *)

TransitionMsg(task_name) ==
    CASE task_name = "book_discovery" -> "Advancing to Scheduling."
      [] task_name = "schedule_creation" -> "Advancing to Engagement."
      [] task_name = "engagement_generation" -> "Workflow Complete."
      [] OTHER -> "Staying in current phase."

\* A variant in which finishing the last task starts the workflow over.
NextPhase_StartsOver(current_phase, task_name) ==
    CASE task_name = "book_discovery" -> "scheduling"
      [] task_name = "schedule_creation" -> "engagement"
      [] task_name = "engagement_generation" -> "discovery"
      [] OTHER -> current_phase

\* A variant with two targets of the mapping swapped.
NextPhase_Swapped(current_phase, task_name) ==
    CASE task_name = "book_discovery" -> "engagement"
      [] task_name = "schedule_creation" -> "scheduling"
      [] task_name = "engagement_generation" -> "complete"
      [] OTHER -> current_phase

\* A variant with a misspelt phase name.
NextPhase_Typo(current_phase, task_name) ==
    CASE task_name = "book_discovery" -> "scheduling"
      [] task_name = "schedule_creation" -> "engagement"
      [] task_name = "engagement_generation" -> "completed"
      [] OTHER -> current_phase

NextPhase(current_phase, task_name) ==
    CASE task_name = "book_discovery" -> "scheduling"
      [] task_name = "schedule_creation" -> "engagement"
      [] task_name = "engagement_generation" -> "complete"
      [] OTHER -> current_phase

\* state.get("current_phase", "discovery")
GetPhase(st) ==
    IF st.current_phase = Absent THEN "discovery" ELSE st.current_phase

mark_task_complete(st, task_name) ==
    LET st1 == [st EXCEPT !.completed = @ \cup {task_name}]
        current_phase == GetPhase(st1)
        next_phase == NextPhase(current_phase, task_name)
    IN  [state |-> [st1 EXCEPT !.current_phase = next_phase],
         ret   |-> <<"Task '", task_name, "' marked as complete", ". ",
                     TransitionMsg(task_name)>>]

----------------------------------------------------------------------------
(* Phase Recovery *)

Marker(task_name) == <<"Task '", task_name, "' marked as complete">>

\* Python's `marker in content_str`
IsIn(marker, content_str) ==
    \E i \in 0..(Len(content_str) - Len(marker)) :
        SubSeq(content_str, i + 1, i + Len(marker)) = marker

\* A variant in which a marker found later replaces the ones found before.
ScanEvents_LastWins(evs, i, done) ==
    LET none == [discovery_done |-> FALSE, scheduling_done |-> FALSE,
                 engagement_done |-> FALSE]
        last == {j \in 1..Len(evs) :
                    /\ \E t \in {"book_discovery", "schedule_creation",
                                  "engagement_generation"} : IsIn(Marker(t), evs[j])
                    /\ \A k \in (j + 1)..Len(evs) :
                          \A t \in {"book_discovery", "schedule_creation",
                                    "engagement_generation"} : ~IsIn(Marker(t), evs[k])}
    IN  IF last = {} THEN none
        ELSE LET j == CHOOSE j \in last : TRUE IN
             [discovery_done  |-> IsIn(Marker("book_discovery"), evs[j]),
              scheduling_done |-> IsIn(Marker("schedule_creation"), evs[j])
                                  /\ ~IsIn(Marker("engagement_generation"), evs[j]),
              engagement_done |-> IsIn(Marker("engagement_generation"), evs[j])]

RECURSIVE ScanEvents(_, _, _)
ScanEvents(evs, i, done) ==
    IF i > Len(evs) THEN done
    ELSE LET content_str == evs[i]
             d1 == IF IsIn(Marker("book_discovery"), content_str)
                   THEN [done EXCEPT !.discovery_done = TRUE] ELSE done
             d2 == IF IsIn(Marker("schedule_creation"), content_str)
                   THEN [d1 EXCEPT !.scheduling_done = TRUE] ELSE d1
             d3 == IF IsIn(Marker("engagement_generation"), content_str)
                   THEN [d2 EXCEPT !.engagement_done = TRUE] ELSE d2
         IN  ScanEvents(evs, i + 1, d3)

\* A variant that tests the markers from least to most advanced.
RestoredPhase_LeastAdvanced(done) ==
    IF done.discovery_done THEN "scheduling"
    ELSE IF done.scheduling_done THEN "engagement"
    ELSE IF done.engagement_done THEN "complete"
    ELSE "discovery"

\* A variant whose fallback is not the first phase.
RestoredPhase_DefaultScheduling(done) ==
    IF done.engagement_done THEN "complete"
    ELSE IF done.scheduling_done THEN "engagement"
    ELSE "scheduling"

\* A variant that restores the phase a marker completed, not the one after it.
RestoredPhase_Lagging(done) ==
    IF done.engagement_done THEN "engagement"
    ELSE IF done.scheduling_done THEN "scheduling"
    ELSE "discovery"

RestoredPhase(done) ==
    IF done.engagement_done THEN "complete"
    ELSE IF done.scheduling_done THEN "engagement"
    ELSE IF done.discovery_done THEN "scheduling"
    ELSE "discovery"

\* A variant that rescans the history on every interaction.
StateRecovery_Always(st, evs) ==
    [st EXCEPT !.current_phase =
        RestoredPhase(ScanEvents(evs, 1,
            [discovery_done |-> FALSE, scheduling_done |-> FALSE,
             engagement_done |-> FALSE]))]

\* A variant that also recovers when the stored value is not a known phase.
StateRecovery_UnlessKnown(st, evs) ==
    IF st.current_phase \notin {"discovery", "scheduling", "engagement", "complete"}
    THEN [st EXCEPT !.current_phase =
            RestoredPhase(ScanEvents(evs, 1,
                [discovery_done |-> FALSE, scheduling_done |-> FALSE,
                 engagement_done |-> FALSE]))]
    ELSE st

StateRecovery(st, evs) ==
    IF st.current_phase = Absent
    THEN [st EXCEPT !.current_phase =
            RestoredPhase(ScanEvents(evs, 1,
                [discovery_done |-> FALSE, scheduling_done |-> FALSE,
                 engagement_done |-> FALSE]))]
    ELSE st

----------------------------------------------------------------------------
(* Orchestration Loop *)

\* A variant with two workers swapped.
Route_Swapped(current_phase) ==
    CASE current_phase = "discovery" -> "DiscoveryAgent"
      [] current_phase = "scheduling" -> "EngagementAgent"
      [] current_phase = "engagement" -> "SchedulingAgent"
      [] OTHER -> NoAgent

\* A variant without the terminal branch for "complete".
Route_NoTerminal(current_phase) ==
    CASE current_phase = "discovery" -> "DiscoveryAgent"
      [] current_phase = "scheduling" -> "SchedulingAgent"
      [] current_phase \in {"engagement", "complete"} -> "EngagementAgent"
      [] OTHER -> NoAgent

Route(current_phase) ==
    CASE current_phase = "discovery" -> "DiscoveryAgent"
      [] current_phase = "scheduling" -> "SchedulingAgent"
      [] current_phase = "engagement" -> "EngagementAgent"
      [] OTHER -> NoAgent

\* A variant with an off-by-one loop bound.
LoopGuard_OffByOne(lc) == lc <= max_loops

LoopGuard(lc) == lc < max_loops

\* A variant that logs the unknown phase but forgets to reset it.
ResetPhase_Forgotten(st) == st

\* The unknown-phase branch: state["current_phase"] = "discovery"
ResetPhase(st) == [st EXCEPT !.current_phase = "discovery"]

\* A variant that raises on an unknown phase instead of resetting it.
OrchestrationLoop_Raises(st, lc) ==
    IF ~LoopGuard(lc)
    THEN [state |-> st, loop_count |-> lc, pc |-> "idle",
          target_agent |-> NoAgent, phase_before |-> Absent,
          stop_reason |-> "exhausted"]
    ELSE IF Route(st.current_phase) # NoAgent
    THEN [state |-> st, loop_count |-> lc + 1, pc |-> "worker",
          target_agent |-> Route(st.current_phase),
          phase_before |-> st.current_phase, stop_reason |-> "running"]
    ELSE IF st.current_phase = "complete"
    THEN [state |-> st, loop_count |-> lc + 1, pc |-> "idle",
          target_agent |-> NoAgent, phase_before |-> Absent,
          stop_reason |-> "complete"]
    ELSE [state |-> st, loop_count |-> lc + 1, pc |-> "error",
          target_agent |-> NoAgent, phase_before |-> Absent,
          stop_reason |-> "error"]

\* The while loop, run from its head until it either starts a worker or stops.
RECURSIVE OrchestrationLoop(_, _)
OrchestrationLoop(st, lc) ==
    IF ~LoopGuard(lc)
    THEN [state |-> st, loop_count |-> lc, pc |-> "idle",
          target_agent |-> NoAgent, phase_before |-> Absent,
          stop_reason |-> "exhausted"]
    ELSE LET current_phase == st.current_phase IN
         IF Route(current_phase) # NoAgent
         THEN [state |-> st, loop_count |-> lc + 1, pc |-> "worker",
               target_agent |-> Route(current_phase),
               phase_before |-> current_phase, stop_reason |-> "running"]
         ELSE IF current_phase = "complete"
         THEN [state |-> st, loop_count |-> lc + 1, pc |-> "idle",
               target_agent |-> NoAgent, phase_before |-> Absent,
               stop_reason |-> "complete"]
         ELSE OrchestrationLoop(ResetPhase(st), lc + 1)

\* A variant that always continues the loop.
PhaseChanged_Always(phase_after, before) == TRUE

\* The transition check after the worker's events are exhausted.
PhaseChanged(phase_after, before) == phase_after # before

\* A variant in which the loop itself advances a worker that did not signal.
AfterWorker_AutoAdvance(st, lc, before) ==
    IF PhaseChanged(st.current_phase, before)
    THEN OrchestrationLoop(st, lc)
    ELSE OrchestrationLoop(
            [st EXCEPT !.current_phase =
                CASE before = "discovery" -> "scheduling"
                  [] before = "scheduling" -> "engagement"
                  [] OTHER -> "complete"], lc)

AfterWorker(st, lc, before) ==
    IF PhaseChanged(st.current_phase, before)
    THEN OrchestrationLoop(st, lc)
    ELSE [state |-> st, loop_count |-> lc, pc |-> "idle",
          target_agent |-> NoAgent, phase_before |-> Absent,
          stop_reason |-> "unchanged"]

----------------------------------------------------------------------------
(* Inputs *)

\* What the user may type: plain text, or text that quotes a completion message.
UserTexts == {<<"hello">>,
              <<"you said: ", "Task '", "engagement_generation", "' marked as complete", "?">>}

NoOp == [name |-> "init", task_name |-> NoTask, phase |-> Absent]

NoInteraction == [stored |-> EmptyState, recovered |-> EmptyState, len |-> 0]

\* get_book_details has not been called.
NoCall == [pc |-> "idle", queries |-> <<>>, q |-> 0, attempt |-> 0,
           attempts |-> <<>>, sleeps |-> <<>>, ret |-> "none"]

\* A variant that hands the newest event to the caller first.
Forward_NewestFirst(fwd, event) == <<event>> \o fwd

\* `async for event in target_agent.run_async(ctx): yield event`
Forward(fwd, event) == Append(fwd, event)

\* The worker whose turn is the last of `turns` produced `event`.
Produce(turns, event) ==
    [turns EXCEPT ![Len(turns)].events = Append(@, event)]

NewTurn(turns, agent) == Append(turns, [agent |-> agent, events |-> <<>>])

----------------------------------------------------------------------------
(* Actions *)

TypeOK ==
    /\ state.current_phase \in PhaseValues \cup {Absent}
    /\ state.completed \subseteq TaskArgs
    /\ Len(events) <= MaxEvents
    /\ pc \in {"idle", "worker"}
    /\ loop_count \in 0..max_loops
    /\ signalled \subseteq TaskArgs
    /\ initialized \in BOOLEAN
    /\ turn_calls \in 0..MaxEvents

\* A fresh session: empty Event History, Session State empty or created with
\* an initial current_phase.
Init ==
    /\ state \in {[current_phase |-> p, completed |-> {}] : p \in PhaseValues \cup {Absent}}
    /\ events = <<>>
    /\ pc = "idle"
    /\ loop_count = 0
    /\ phase_before = Absent
    /\ target_agent = NoAgent
    /\ invoked = <<>>
    /\ signalled = {}
    /\ initialized = FALSE
    /\ stop_reason = "none"
    /\ turn_calls = 0
    /\ op = NoOp
    /\ forwarded = <<>>
    /\ produced = <<>>
    /\ ia = NoInteraction
    /\ book = NoCall

\* One external interaction arrives: the runtime has appended the user's
\* message, then _run_async_impl runs up to its first worker or its end.
StartInteraction(text) ==
    /\ pc = "idle"
    /\ Len(events) < MaxEvents
    /\ LET evs == Append(events, text)
           rec == StateRecovery(state, evs)
           r   == OrchestrationLoop(rec, 0)
       IN  /\ events' = evs
           /\ state' = r.state
           /\ pc' = r.pc
           /\ loop_count' = r.loop_count
           /\ phase_before' = r.phase_before
           /\ target_agent' = r.target_agent
           /\ stop_reason' = r.stop_reason
           /\ invoked' = IF r.pc = "worker" THEN <<r.target_agent>> ELSE <<>>
           /\ initialized' = (initialized \/ state.current_phase = Absent)
           /\ op' = [name |-> "start", task_name |-> NoTask, phase |-> state.current_phase]
           /\ produced' = IF r.pc = "worker" THEN NewTurn(<<>>, r.target_agent) ELSE <<>>
           /\ ia' = [stored |-> state, recovered |-> rec, len |-> Len(evs)]
    /\ forwarded' = <<>>
    /\ turn_calls' = 0
    /\ UNCHANGED <<signalled, book>>

\* The running worker calls the mark_task_complete tool; the runtime records
\* the returned string as a function-response event.
WorkerSignals(task_name) ==
    /\ pc = "worker"
    /\ Len(events) < MaxEvents
    /\ turn_calls < MaxTurnCalls
    /\ LET r == mark_task_complete(state, task_name)
       IN  /\ state' = r.state
           /\ events' = Append(events, r.ret)
           /\ produced' = Produce(produced, r.ret)
           /\ forwarded' = Forward(forwarded, r.ret)
    /\ signalled' = signalled \cup {task_name}
    /\ initialized' = TRUE
    /\ turn_calls' = turn_calls + 1
    /\ op' = [name |-> "signal", task_name |-> task_name, phase |-> state.current_phase]
    /\ UNCHANGED <<pc, loop_count, phase_before, target_agent, invoked, stop_reason,
                   ia, book>>

\* The worker's event stream ends; the loop checks for a transition and
\* continues up to the next worker or to its end.
WorkerReturns ==
    /\ pc = "worker"
    /\ LET r == AfterWorker(state, loop_count, phase_before)
       IN  /\ state' = r.state
           /\ pc' = r.pc
           /\ loop_count' = r.loop_count
           /\ phase_before' = r.phase_before
           /\ target_agent' = r.target_agent
           /\ stop_reason' = r.stop_reason
           /\ invoked' = IF r.pc = "worker" THEN Append(invoked, r.target_agent) ELSE invoked
           /\ turn_calls' = IF r.pc = "worker" THEN 0 ELSE turn_calls
           /\ produced' = IF r.pc = "worker" THEN NewTurn(produced, r.target_agent)
                          ELSE produced
    /\ op' = [name |-> "return", task_name |-> NoTask, phase |-> state.current_phase]
    /\ UNCHANGED <<events, signalled, initialized, forwarded, ia, book>>

\* Process restart or cold session resume: the in-memory Session State is
\* gone, Event History persists.
ColdResume ==
    /\ pc = "idle"
    /\ state # EmptyState
    /\ state' = EmptyState
    /\ initialized' = FALSE
    /\ op' = [name |-> "resume", task_name |-> NoTask, phase |-> state.current_phase]
    /\ UNCHANGED <<events, pc, loop_count, phase_before, target_agent,
                   invoked, signalled, stop_reason, turn_calls,
                   forwarded, produced, ia, book>>

Next ==
    \/ \E text \in UserTexts : StartInteraction(text)
    \/ \E task_name \in TaskArgs : WorkerSignals(task_name)
    \/ WorkerReturns
    \/ ColdResume

Spec == Init /\ [][Next]_vars

----------------------------------------------------------------------------
(* The Completion Signal on its own: mark_task_complete applied to any      *)
(* Session State, with any task name.                                       *)

SessionStates ==
    {[current_phase |-> p, completed |-> c] :
        p \in PhaseValues \cup {Absent}, c \in SUBSET TaskArgs}

InitSignal ==
    /\ state \in SessionStates
    /\ events = <<>>
    /\ pc = "idle"
    /\ loop_count = 0
    /\ phase_before = Absent
    /\ target_agent = NoAgent
    /\ invoked = <<>>
    /\ signalled = {}
    /\ initialized = FALSE
    /\ stop_reason = "none"
    /\ turn_calls = 0
    /\ op = NoOp
    /\ forwarded = <<>>
    /\ produced = <<>>
    /\ ia = NoInteraction
    /\ book = NoCall

Signal(task_name) ==
    /\ state' = mark_task_complete(state, task_name).state
    /\ signalled' = signalled \cup {task_name}
    /\ initialized' = TRUE
    /\ op' = [name |-> "signal", task_name |-> task_name, phase |-> state.current_phase]
    /\ UNCHANGED <<events, pc, loop_count, phase_before, target_agent, invoked,
                   stop_reason, turn_calls, forwarded, produced, ia, book>>

NextSignal == \E task_name \in TaskArgs : Signal(task_name)

SpecSignal == InitSignal /\ [][NextSignal]_vars

----------------------------------------------------------------------------
(* Phase Recovery on its own: the state recovery of _run_async_impl applied *)
(* to an empty Session State and any history, and to the histories obtained *)
(* from it by reordering and by replaying events.                           *)

\* Bound of this specification: events in the history.
MaxHistory == 3

EventTexts == UserTexts \cup {mark_task_complete(EmptyState, t).ret : t \in TaskArgs}

Histories ==
    UNION {[1..n -> EventTexts] : n \in 0..MaxHistory}

InitRecovery ==
    /\ events \in Histories
    /\ state = StateRecovery(EmptyState, events)
    /\ pc = "idle"
    /\ loop_count = 0
    /\ phase_before = Absent
    /\ target_agent = NoAgent
    /\ invoked = <<>>
    /\ signalled = {}
    /\ initialized = TRUE
    /\ stop_reason = "none"
    /\ turn_calls = 0
    /\ op = NoOp
    /\ forwarded = <<>>
    /\ produced = <<>>
    /\ ia = NoInteraction
    /\ book = NoCall

Recover(evs, name) ==
    /\ events' = evs
    /\ state' = StateRecovery(EmptyState, evs)
    /\ op' = [name |-> name, task_name |-> NoTask, phase |-> state.current_phase]
    /\ UNCHANGED <<pc, loop_count, phase_before, target_agent, invoked, signalled,
                   initialized, stop_reason, turn_calls, forwarded, produced, ia, book>>

\* The same events, two neighbours exchanged.
Reorder(i) ==
    /\ i \in 1..(Len(events) - 1)
    /\ events[i] # events[i + 1]
    /\ Recover([events EXCEPT ![i] = events[i + 1], ![i + 1] = events[i]], "reorder")

\* An event of the history is delivered once more.
Replay(i) ==
    /\ i \in 1..Len(events)
    /\ Len(events) < MaxHistory
    /\ Recover(Append(events, events[i]), "replay")

NextRecovery ==
    \/ \E i \in 1..MaxHistory : Reorder(i)
    \/ \E i \in 1..MaxHistory : Replay(i)

SpecRecovery == InitRecovery /\ [][NextRecovery]_vars

----------------------------------------------------------------------------
(* get_book_details: one call, one network attempt per step.                *)

max_retries == 3

FoundString == "Found Book: <title> by <authors>. Total Pages: <n>."
FailureString ==
    "Could not find book details with page counts. Please ask the user for the page count."

\* What one attempt can meet: an exception anywhere in the try block, a
\* response without "items", a response whose first 3 items have no page
\* count, a response with a page count among its first 3 items.
Outcomes == {"raises", "no_items", "no_page_count", "page_count"}

\* The query variants, for truthy / falsy isbn, title, author.
Queries(isbn, title, author) ==
    (IF title /\ author THEN <<"intitle+inauthor">> ELSE <<>>)
    \o (IF title THEN <<"intitle">> ELSE <<>>)
    \o (IF author THEN <<"inauthor">> ELSE <<>>)
    \o (IF isbn THEN <<"isbn">> ELSE <<>>)

\* A variant with a linear delay.
Backoff_Linear(attempt) == 2 * attempt

Backoff(attempt) == 2 ^ attempt

\* End of the body of `for q in queries` for the current query.
NextQuery(b) ==
    IF b.q < Len(b.queries)
    THEN [b EXCEPT !.q = b.q + 1, !.attempt = 0]
    ELSE [b EXCEPT !.pc = "done", !.ret = FailureString]

\* A variant that lets the last failure of a query escape.
OnException_Reraise(b) ==
    IF b.attempt < max_retries - 1
    THEN [b EXCEPT !.sleeps = Append(@, Backoff(b.attempt)), !.attempt = b.attempt + 1]
    ELSE [b EXCEPT !.pc = "done", !.ret = "<exception>"]

\* The `except Exception` handler.
OnException(b) ==
    IF b.attempt < max_retries - 1
    THEN [b EXCEPT !.sleeps = Append(@, Backoff(b.attempt)), !.attempt = b.attempt + 1]
    ELSE NextQuery(b)

OneAttempt(b, outcome) ==
    LET b1 == [b EXCEPT !.attempts =
                  Append(@, [query |-> b.queries[b.q], attempt |-> b.attempt,
                             outcome |-> outcome])]
    IN  CASE outcome = "page_count" -> [b1 EXCEPT !.pc = "done", !.ret = FoundString]
          [] outcome \in {"no_items", "no_page_count"} -> NextQuery(b1)
          [] OTHER -> OnException(b1)

InitBook ==
    /\ state = EmptyState
    /\ events = <<>>
    /\ pc = "idle"
    /\ loop_count = 0
    /\ phase_before = Absent
    /\ target_agent = NoAgent
    /\ invoked = <<>>
    /\ signalled = {}
    /\ initialized = FALSE
    /\ stop_reason = "none"
    /\ turn_calls = 0
    /\ op = NoOp
    /\ forwarded = <<>>
    /\ produced = <<>>
    /\ ia = NoInteraction
    /\ book = NoCall

NotBook == <<state, events, pc, loop_count, phase_before, target_agent, invoked,
             signalled, initialized, stop_reason, turn_calls, op, forwarded,
             produced, ia>>

\* get_book_details is called: the query variants are built.
CallBookDetails(isbn, title, author) ==
    /\ book.pc = "idle"
    /\ LET queries == Queries(isbn, title, author)
           b == [NoCall EXCEPT !.queries = queries]
       IN  book' = IF queries = <<>>
                   THEN [b EXCEPT !.pc = "done", !.ret = FailureString]
                   ELSE [b EXCEPT !.pc = "attempt", !.q = 1]
    /\ UNCHANGED NotBook

\* One pass through the try block.
Attempt(outcome) ==
    /\ book.pc = "attempt"
    /\ book' = OneAttempt(book, outcome)
    /\ UNCHANGED NotBook

NextBook ==
    \/ \E isbn \in BOOLEAN, title \in BOOLEAN, author \in BOOLEAN :
            CallBookDetails(isbn, title, author)
    \/ \E outcome \in Outcomes : Attempt(outcome)

SpecBook == InitBook /\ [][NextBook]_vars

----------------------------------------------------------------------------
(* Properties *)

\* The fixed task -> phase mapping of the Completion Signal contract.
MappedPhase(task_name) ==
    CASE task_name = "book_discovery" -> "scheduling"
      [] task_name = "schedule_creation" -> "engagement"
      [] task_name = "engagement_generation" -> "complete"

\* The completion markers present anywhere in a history.
MarkersPresent(evs) ==
    {t \in TaskNames : \E i \in DOMAIN evs : IsIn(Marker(t), evs[i])}

MostAdvanced(markers) ==
    IF "engagement_generation" \in markers THEN "complete"
    ELSE IF "schedule_creation" \in markers THEN "engagement"
    ELSE IF "book_discovery" \in markers THEN "scheduling"
    ELSE "discovery"

Successor(p) ==
    CASE p = "discovery" -> "scheduling"
      [] p = "scheduling" -> "engagement"
      [] p = "engagement" -> "complete"
      [] OTHER -> Absent

\* C1 (as stated): after mark_task_complete(task_name), current_phase is the
\* mapped phase for the three task names, and for any other task name it is
\* what Session State held before the call, for every prior Session State.
C1_SignalSetsMappedPhase_Original ==
    op.name = "signal" =>
        state.current_phase =
            IF op.task_name \in TaskNames THEN MappedPhase(op.task_name) ELSE op.phase

\* C1 (amended): as above, except that for another task name a Session State
\* without current_phase gets current_phase = discovery.
C1_SignalSetsMappedPhase ==
    op.name = "signal" =>
        state.current_phase =
            IF op.task_name \in TaskNames THEN MappedPhase(op.task_name)
            ELSE IF op.phase = Absent THEN "discovery"
            ELSE op.phase

C1_Witness ==
    /\ op.name = "signal"
    /\ op.task_name = OtherTask
    /\ op.phase = Absent
    /\ state.current_phase = "discovery"

\* C2: current_phase only ever changes from a phase to its immediate
\* successor, or from an unrecognized value to discovery.
C2_PhaseOnlyAdvances ==
    [][(/\ state.current_phase # Absent
        /\ state'.current_phase # Absent
        /\ state'.current_phase # state.current_phase)
       => IF state.current_phase \in Phases
          THEN state'.current_phase = Successor(state.current_phase)
          ELSE state'.current_phase = "discovery"]_vars

\* C3: once current_phase has been written by Phase Recovery or by a
\* Completion Signal, it is one of the four phases in every reachable state.
C3_PhaseInEnumeration ==
    initialized => state.current_phase \in Phases

C3_Witness ==
    /\ initialized
    /\ op.name = "signal"
    /\ op.task_name = OtherTask
    /\ state.current_phase \in Phases

\* C4: whenever Session State holds a current_phase (also one obtained by
\* Phase Recovery), the flag of a task name is set in Session State if and
\* only if the Completion Signal was invoked with that task name in this
\* session.
C4_FlagIffSignalled ==
    state.current_phase # Absent =>
        \A t \in TaskArgs : (t \in state.completed) <=> (t \in signalled)

\* C5: when current_phase is absent, Phase Recovery sets it to the phase after
\* the most advanced completion marker present in Event History.
C5_RecoveryMostAdvancedWins ==
    (op.name = "start" /\ op.phase = Absent) =>
        state.current_phase = MostAdvanced(MarkersPresent(events))

C5_Witness ==
    /\ op.name = "start"
    /\ op.phase = Absent
    /\ MarkersPresent(events) = {"schedule_creation"}
    /\ state.current_phase = "engagement"

\* C6: at most 5 worker turns are invoked in one interaction.
C6_AtMostFiveTurns ==
    Len(invoked) <= 5

C6_Witness ==
    /\ Len(invoked) = 5
    /\ stop_reason = "exhausted"

\* C7: if the phase after a worker turn equals the phase before it, the loop
\* stops right after that turn and no further worker is invoked.
C7_UnchangedPhaseStops ==
    [][(pc = "worker" /\ op'.name = "return" /\ state.current_phase = phase_before)
       => (pc' = "idle" /\ invoked' = invoked /\ state' = state)]_vars

C7_Witness ==
    /\ op.name = "return"
    /\ stop_reason = "unchanged"
    /\ turn_calls >= 2
    /\ pc = "idle"

\* C8: whenever a worker turn changes the phase from scheduling to engagement,
\* the engagement worker is invoked next in the same interaction.
C8_SchedulingCascadesToEngagement ==
    [][(/\ pc = "worker"
        /\ op'.name = "return"
        /\ phase_before = "scheduling"
        /\ state.current_phase = "engagement")
       => (pc' = "worker" /\ target_agent' = "EngagementAgent")]_vars

\* The phase the loop reads first in an interaction.
StartPhase ==
    IF op.phase = Absent THEN MostAdvanced(MarkersPresent(events)) ELSE op.phase

\* C9: complete is terminal: the loop stops without invoking a worker when it
\* reads complete, and the phase stays complete.
C9_CompleteIsTerminal ==
    /\ (op.name = "start" /\ StartPhase = "complete")
          => (invoked = <<>> /\ pc = "idle" /\ state.current_phase = "complete")
    /\ (op.name = "return" /\ op.phase = "complete")
          => (pc = "idle" /\ state.current_phase = "complete")
    /\ pc = "worker" => phase_before # "complete"

C9_Witness ==
    /\ op.name = "start"
    /\ op.phase = Absent
    /\ "engagement_generation" \in MarkersPresent(events)
    /\ invoked = <<>>
    /\ state.current_phase = "complete"

\* C10: an unrecognized current_phase gets no worker, is reset to discovery
\* without error, and the discovery worker runs in the same interaction,
\* whatever markers Event History contains.
C10_UnknownPhaseResets ==
    (op.name = "start" /\ op.phase \notin Phases \cup {Absent}) =>
        /\ invoked = <<"DiscoveryAgent">>
        /\ pc = "worker"
        /\ target_agent = "DiscoveryAgent"
        /\ state.current_phase = "discovery"
        /\ stop_reason = "running"

C10_Witness ==
    /\ op.name = "start"
    /\ op.phase = Unrecognized
    /\ MarkersPresent(events) # {}
    /\ invoked = <<"DiscoveryAgent">>
    /\ state.current_phase = "discovery"

RECURSIVE Concatenation(_)
Concatenation(turns) ==
    IF turns = <<>> THEN <<>>
    ELSE turns[1].events \o Concatenation(Tail(turns))

\* C11: the events forwarded to the caller in one interaction are the
\* concatenation, in invocation order, of the event sequences of the workers
\* invoked: each event once, in the order its worker produced it.
C11_ForwardedInOrder ==
    /\ forwarded = Concatenation(produced)
    /\ Len(produced) = Len(invoked)
    /\ \A i \in DOMAIN produced : produced[i].agent = invoked[i]

C11_Witness ==
    /\ Len(produced) >= 2
    /\ Len(produced[1].events) >= 2
    /\ produced[1].events[1] # produced[1].events[2]
    /\ Len(produced[2].events) >= 1
    /\ Len(forwarded) >= 3

\* C12 (as stated): Session State is written only by the Completion Signal
\* and by Phase Recovery (current_phase, when it was absent, at most once per
\* lifetime of the state); the loop itself writes nothing; Event History is
\* only ever extended, and never by the orchestrator's own steps.
C12_OnlySignalAndRecoveryWrite_Original ==
    [][/\ (state' # state /\ op'.name # "resume") =>
            \/ op'.name = "signal"
            \/ /\ op'.name = "start"
               /\ state.current_phase = Absent
               /\ ~initialized
               /\ state'.completed = state.completed
       /\ Len(events') >= Len(events)
       /\ SubSeq(events', 1, Len(events)) = events
       /\ op'.name = "return" => events' = events
       /\ op'.name = "start" => events' = Append(events, events'[Len(events')])]_vars

\* C12 (amended): as above, except that the loop writes current_phase =
\* discovery when it reads an unrecognized value.
C12_OnlySignalAndRecoveryWrite ==
    [][/\ (state' # state /\ op'.name # "resume") =>
            \/ op'.name = "signal"
            \/ /\ op'.name = "start"
               /\ state.current_phase = Absent
               /\ ~initialized
               /\ state'.completed = state.completed
            \/ /\ op'.name = "start"
               /\ state.current_phase \notin Phases \cup {Absent}
               /\ state' = [state EXCEPT !.current_phase = "discovery"]
       /\ Len(events') >= Len(events)
       /\ SubSeq(events', 1, Len(events)) = events
       /\ op'.name = "return" => events' = events
       /\ op'.name = "start" => events' = Append(events, events'[Len(events')])]_vars

C12_Witness ==
    /\ op.name = "start"
    /\ ia.stored.current_phase = Unrecognized
    /\ ia.recovered = ia.stored
    /\ state.current_phase = "discovery"

\* C13: when current_phase is already present at the start of an
\* interaction, with any value, Phase Recovery leaves the whole Session State
\* as it found it, whatever markers Event History contains.
C13_RecoveryNoOpWhenPresent ==
    (op.name = "start" /\ ia.stored.current_phase # Absent) =>
        /\ ia.recovered = ia.stored
        /\ ia.stored.current_phase \in Phases => state = ia.stored

C13_Witness ==
    /\ op.name = "start"
    /\ ia.stored.current_phase = "scheduling"
    /\ ia.stored.completed # {}
    /\ "engagement_generation" \in MarkersPresent(events)
    /\ ia.recovered = ia.stored

\* C14: an interaction ends without error once its worker turns end: every
\* step of the loop either starts the next worker with a larger loop_count of
\* at most 5, or stops because the phase is complete, or because the last
\* worker left the phase unchanged, or because the 5 iterations are used up
\* right after a phase change.
C14_InteractionEnds ==
    [][op'.name \in {"start", "return"} =>
        \/ /\ pc' = "worker"
           /\ stop_reason' = "running"
           /\ loop_count' <= 5
           /\ op'.name = "return" => loop_count' > loop_count
        \/ /\ pc' = "idle"
           /\ stop_reason' = "complete"
           /\ state'.current_phase = "complete"
        \/ /\ pc' = "idle"
           /\ stop_reason' = "unchanged"
           /\ op'.name = "return"
           /\ state.current_phase = phase_before
           /\ state' = state
        \/ /\ pc' = "idle"
           /\ stop_reason' = "exhausted"
           /\ op'.name = "return"
           /\ loop_count' = 5
           /\ state.current_phase # phase_before
           /\ state' = state]_vars

C14_Witness ==
    /\ pc = "idle"
    /\ op.name = "return"
    /\ stop_reason = "exhausted"
    /\ Len(invoked) = 5
    /\ state.current_phase \in {"scheduling", "engagement"}

\* The history Phase Recovery could scan in the current interaction.
ScannedHistory == SubSeq(events, 1, ia.len)

\* The current interaction is the first of a session that had an empty
\* Event History and an empty Session State.
FirstInteraction ==
    /\ op.name \in {"start", "signal", "return"}
    /\ ia.len = 1
    /\ ia.stored = EmptyState

NumInvocations(agent) ==
    Cardinality({i \in DOMAIN invoked : invoked[i] = agent})

\* C15 (as stated): the first interaction of a session with empty Event
\* History and empty Session State (the user's message quoting no completion
\* message) ends with the discovery worker invoked exactly once and
\* current_phase = discovery.
C15_FirstInteraction_Original ==
    (FirstInteraction /\ MarkersPresent(ScannedHistory) = {} /\ pc = "idle") =>
        /\ NumInvocations("DiscoveryAgent") = 1
        /\ state.current_phase = "discovery"

\* C15 (amended): in that interaction the discovery worker is invoked first
\* and exactly once; if no worker makes a Completion Signal call with one of
\* the three task names, it is the only worker invoked and current_phase is
\* discovery when the interaction ends.
C15_FirstInteraction ==
    (FirstInteraction /\ MarkersPresent(ScannedHistory) = {}) =>
        /\ invoked # <<>>
        /\ invoked[1] = "DiscoveryAgent"
        /\ NumInvocations("DiscoveryAgent") = 1
        /\ MarkersPresent(forwarded) = {} =>
                /\ invoked = <<"DiscoveryAgent">>
                /\ state.current_phase = "discovery"

C15_Witness ==
    /\ FirstInteraction
    /\ MarkersPresent(ScannedHistory) = {}
    /\ pc = "idle"
    /\ op.name = "return"
    /\ turn_calls >= 1
    /\ invoked = <<"DiscoveryAgent">>
    /\ state.current_phase = "discovery"

\* The current interaction started without current_phase and with a history
\* whose only completion marker is the one of book_discovery.
RecoveredFromDiscoveryMarker ==
    /\ op.name \in {"start", "signal", "return"}
    /\ ia.stored.current_phase = Absent
    /\ MarkersPresent(ScannedHistory) = {"book_discovery"}

\* C16 (as stated): in such an interaction recovery sets the phase to
\* scheduling and the loop invokes only the scheduling worker.
C16_RecoveredScheduling_Original ==
    RecoveredFromDiscoveryMarker =>
        /\ ia.recovered.current_phase = "scheduling"
        /\ \A i \in DOMAIN invoked : invoked[i] = "SchedulingAgent"

\* C16 (amended): in such an interaction recovery sets the phase to
\* scheduling, the scheduling worker is invoked first and the discovery worker
\* never; if no worker makes a Completion Signal call with one of the three
\* task names, the scheduling worker is the only worker invoked.
C16_RecoveredScheduling ==
    RecoveredFromDiscoveryMarker =>
        /\ ia.recovered.current_phase = "scheduling"
        /\ invoked # <<>>
        /\ invoked[1] = "SchedulingAgent"
        /\ NumInvocations("DiscoveryAgent") = 0
        /\ MarkersPresent(forwarded) = {} => invoked = <<"SchedulingAgent">>

C16_Witness ==
    /\ RecoveredFromDiscoveryMarker
    /\ pc = "idle"
    /\ op.name = "return"
    /\ invoked = <<"SchedulingAgent">>
    /\ state.current_phase = "scheduling"

\* C19: in the loop a recognized current_phase changes only in a Completion
\* Signal call: a worker turn without such a call leaves the phase as it was
\* before the turn, and the loop's own steps never change a recognized phase.
C19_OnlySignalAdvances ==
    [][/\ (/\ state.current_phase \in Phases
           /\ state'.current_phase # state.current_phase
           /\ op'.name # "resume") => op'.name = "signal"
       /\ (op'.name = "return" /\ turn_calls = 0) =>
               /\ state.current_phase = phase_before
               /\ state' = state]_vars

C19_Witness ==
    /\ op.name = "return"
    /\ turn_calls = 0
    /\ stop_reason = "unchanged"
    /\ state.current_phase = "scheduling"

\* The worker bound to a phase.
BoundWorker(p) ==
    CASE p = "discovery" -> "DiscoveryAgent"
      [] p = "scheduling" -> "SchedulingAgent"
      [] p = "engagement" -> "EngagementAgent"

\* C20: a worker is only ever invoked for discovery, scheduling or
\* engagement, and it is the worker bound to the phase read at the start of
\* that iteration; none is invoked for complete or an unrecognized value.
C20_WorkerBoundToPhase ==
    pc = "worker" =>
        /\ phase_before \in {"discovery", "scheduling", "engagement"}
        /\ target_agent = BoundWorker(phase_before)
        /\ invoked[Len(invoked)] = target_agent
        /\ op.name \in {"start", "return"} => state.current_phase = phase_before

C20_Witness ==
    /\ pc = "worker"
    /\ op.name = "return"
    /\ Len(invoked) = 3
    /\ target_agent = "EngagementAgent"
    /\ state.current_phase = "engagement"

\* C17: the phase Phase Recovery computes is the same for a history and for
\* any reordering of it or any history with some of its events replayed.
C17_RecoveryIgnoresOrderAndReplay ==
    op.name \in {"reorder", "replay"} => state.current_phase = op.phase

C17_Witness ==
    /\ op.name = "reorder"
    /\ MarkersPresent(events) = {"book_discovery", "schedule_creation"}
    /\ IsIn(Marker("schedule_creation"), events[1])
    /\ state.current_phase = "engagement"

AllRaised ==
    \A i \in DOMAIN book.attempts : book.attempts[i].outcome = "raises"

\* C18 (as stated): get_book_details always returns a string, never an
\* exception; whenever title and author are given and every attempt raises,
\* exactly 9 attempts are made and the failure string is returned.
C18_NeverRaises_Original ==
    book.pc = "done" =>
        /\ book.ret \in {FoundString, FailureString}
        /\ ({"intitle", "inauthor"} \subseteq {book.queries[i] : i \in DOMAIN book.queries}
            /\ AllRaised)
              => (Len(book.attempts) = 9 /\ book.ret = FailureString)

\* C18 (amended): as above, with 9 attempts when title and author are given
\* without an isbn, and 12 attempts (4 variants) when an isbn is given too.
C18_NeverRaises ==
    book.pc = "done" =>
        /\ book.ret \in {FoundString, FailureString}
        /\ ({"intitle", "inauthor"} \subseteq {book.queries[i] : i \in DOMAIN book.queries}
            /\ AllRaised)
              => /\ book.ret = FailureString
                 /\ Len(book.attempts) =
                        IF \E i \in DOMAIN book.queries : book.queries[i] = "isbn"
                        THEN 12 ELSE 9

C18_Witness ==
    /\ book.pc = "done"
    /\ book.queries = <<"intitle+inauthor", "intitle", "inauthor">>
    /\ AllRaised
    /\ Len(book.attempts) = 9
    /\ book.ret = FailureString

\* The task name a worker's instruction tells it to signal.
OwnTask(agent) ==
    CASE agent = "DiscoveryAgent" -> "book_discovery"
      [] agent = "SchedulingAgent" -> "schedule_creation"
      [] agent = "EngagementAgent" -> "engagement_generation"

\* Every Completion Signal call of the current interaction was made by a
\* worker with the task name of its own phase.
OwnTaskOnly ==
    \A i \in DOMAIN produced :
        \A k \in DOMAIN produced[i].events :
            produced[i].events[k][2] = OwnTask(produced[i].agent)

\* C21: when every worker signals only the task of its own phase, an
\* interaction that starts with a recognized or absent phase has at most 3
\* worker turns, never stops on the iteration bound, and ends with phase
\* complete or right after the worker of the final phase left it unchanged.
C21_WellBehavedCascade ==
    (/\ op.name \in {"start", "signal", "return"}
     /\ ia.stored.current_phase \in Phases \cup {Absent}
     /\ OwnTaskOnly) =>
        /\ Len(invoked) <= 3
        /\ stop_reason # "exhausted"
        /\ pc = "idle" =>
              \/ state.current_phase = "complete"
              \/ /\ stop_reason = "unchanged"
                 /\ invoked # <<>>
                 /\ invoked[Len(invoked)] = BoundWorker(state.current_phase)

C21_Witness ==
    /\ op.name = "return"
    /\ ia.stored.current_phase = Absent
    /\ OwnTaskOnly
    /\ invoked = <<"DiscoveryAgent", "SchedulingAgent", "EngagementAgent">>
    /\ pc = "idle"
    /\ stop_reason = "complete"
    /\ state.current_phase = "complete"

\* No user message in the history quotes a completion message.
NoQuotedMarker ==
    \A i \in DOMAIN events :
        events[i] \in UserTexts => MarkersPresent(<<events[i]>>) = {}

\* C22: at the end of an interaction (of a session whose phase came from
\* Phase Recovery and Completion Signals only, all confirmations being in
\* Event History), deleting current_phase and running Phase Recovery gives
\* back the current_phase Session State held.
C22_StateDerivedFromHistory ==
    (/\ pc = "idle"
     /\ op.name \in {"start", "return"}
     /\ ia.stored.current_phase = Absent
     /\ NoQuotedMarker) =>
        StateRecovery([state EXCEPT !.current_phase = Absent], events).current_phase
            = state.current_phase

\* The sleeps the attempts made so far call for: one after every attempt
\* that raised, except the third of a variant.
RECURSIVE ExpectedSleeps(_)
ExpectedSleeps(attempts) ==
    IF attempts = <<>> THEN <<>>
    ELSE LET a == attempts[1] IN
         (IF a.outcome = "raises" /\ a.attempt = 0 THEN <<1>>
          ELSE IF a.outcome = "raises" /\ a.attempt = 1 THEN <<2>>
          ELSE <<>>) \o ExpectedSleeps(Tail(attempts))

\* C23: a variant gets at most 3 attempts; a variant is attempted again only
\* after an attempt that raised, after sleeping 1 s then 2 s, with no sleep
\* after the third; a response without a page count ends the variant; the
\* first page count ends the call with the found string.
C23_RetryPolicy ==
    LET att == book.attempts IN
    /\ \A i \in DOMAIN att : att[i].attempt \in 0..2
    /\ \A i \in DOMAIN att : i > 1 =>
          IF att[i].query = att[i - 1].query
          THEN /\ att[i - 1].outcome = "raises"
               /\ att[i].attempt = att[i - 1].attempt + 1
          ELSE /\ att[i].attempt = 0
               /\ \/ att[i - 1].outcome \in {"no_items", "no_page_count"}
                  \/ att[i - 1].outcome = "raises" /\ att[i - 1].attempt = 2
    /\ \A i \in DOMAIN att : \A j \in DOMAIN att :
          (i < j /\ att[i].outcome # "raises") => att[j].query # att[i].query
    /\ \A i \in DOMAIN att : att[i].outcome = "page_count" =>
          /\ i = Len(att)
          /\ book.pc = "done"
          /\ book.ret = FoundString
    /\ book.sleeps = ExpectedSleeps(att)

C23_Witness ==
    /\ book.pc = "done"
    /\ book.ret = FoundString
    /\ Len(book.attempts) = 5
    /\ book.attempts[3].outcome = "raises"
    /\ book.attempts[4].outcome = "no_page_count"
    /\ book.sleeps = <<1, 2>>

====
